---- MODULE Spec2Model ----
(***************************************************************************)
(* Model of src/app.py, the H-1B visa analytics dashboard: one run of the  *)
(* script, statement block by statement block.  A DataFrame is the set of  *)
(* its rows, each row carrying its index label idx; a Series is a function *)
(* from its index keys to values.  Employer names and the search text are  *)
(* sequences of one-character strings, so that the substring / regular     *)
(* expression search of line 308 is computed character by character.       *)
(***************************************************************************)
EXTENDS Integers, Sequences, FiniteSets, TLC

VARIABLES
    pc,                 \* position of the script
    df,                 \* the loaded dataset (line 51)
    selected_years,     \* the year multiselect (line 75)
    year_filtered_df,   \* line 78
    yearly_approvals,   \* line 85
    yearly_denials,     \* line 86
    approvals_metrics,  \* loop of lines 90-93: year -> current, previous, yoy
    denials_metrics,    \* loop of lines 102-105
    top_10_industries,  \* line 136
    industry_yearly,    \* the top-industries pivot, lines 145-155
    supply_chain_df,    \* line 205, State / City normalised at lines 269-270
    supply_chain_yearly,\* the watch-list pivot, lines 220-225
    top_companies,      \* line 256, one Series per tab
    selected_state, selected_city, selected_industry, search_company, \* 290-293
    filtered_df,        \* lines 296-308
    yoy_current, yoy_previous, yoy_change  \* a call of calculate_yoy_change

vars == <<pc, df, selected_years, year_filtered_df, yearly_approvals,
          yearly_denials, approvals_metrics, denials_metrics,
          top_10_industries, industry_yearly, supply_chain_df,
          supply_chain_yearly, top_companies, selected_state, selected_city,
          selected_industry, search_company, filtered_df,
          yoy_current, yoy_previous, yoy_change>>

----------------------------------------------------------------------------
(* Bounds of the model *)

\* rows of the loaded dataset
NumRows == 3
\* the n of nlargest(n) at line 136 (10 in the source), scaled to the
\* number of industries the model's datasets hold
TopN == 2
\* the n of nlargest(n) at line 256 (30 in the source), scaled likewise
TopK == 2
\* largest argument of a stand-alone call of calculate_yoy_change
MaxYoy == 150

----------------------------------------------------------------------------
(* Values *)

\* a missing City / State of the parquet file (None / NaN)
NaN == "NaN"

Professional == "54 - Professional, Scientific, and Technical Services"
Manufacturing == "31-33 - Manufacturing"
Retail == "44-45 - Retail Trade"
Transportation == "48-49 - Transportation and Warehousing"
Mining == "21 - Mining, Quarrying, and Oil and Gas Extraction"
Finance == "52 - Finance and Insurance"
Others == "Others"

\* lines 63-69
target_industries ==
    <<Professional, Manufacturing, Retail, Transportation, Mining>>

\* the order Python gives these strings (by code point): the order of a
\* groupby / pivot_table axis
IndustryOrder ==
    <<Mining, Manufacturing, Retail, Transportation, Finance, Professional,
      Others>>

\* employer names "Ab", "Bc", "a." as character sequences
NameAb == <<"A", "b">>
NameBc == <<"B", "c">>
NameADot == <<"a", ".">>

\* the same order for the employer names
EmployerOrder == <<NameAb, NameBc, NameADot>>

\* rows the parquet file may hold, before load_data adds the totals
RawRecords ==
    { [Year |-> 2021, Employer |-> NameAb, City |-> "SF", State |-> "CA",
       Industry |-> Professional,
       Initial_Approval |-> 10, Initial_Denial |-> 1,
       Continuing_Approval |-> 5, Continuing_Denial |-> 0],
      [Year |-> 2021, Employer |-> NameBc, City |-> NaN, State |-> "TX",
       Industry |-> Professional,
       Initial_Approval |-> 20, Initial_Denial |-> 0,
       Continuing_Approval |-> 0, Continuing_Denial |-> 2],
      [Year |-> 2022, Employer |-> NameADot, City |-> "SF", State |-> NaN,
       Industry |-> Professional,
       Initial_Approval |-> 10, Initial_Denial |-> 0,
       Continuing_Approval |-> 20, Continuing_Denial |-> 1],
      [Year |-> 2022, Employer |-> NameAb, City |-> "SF", State |-> "CA",
       Industry |-> Manufacturing,
       Initial_Approval |-> 5, Initial_Denial |-> 0,
       Continuing_Approval |-> 5, Continuing_Denial |-> 3],
      [Year |-> 2021, Employer |-> NameADot, City |-> "LA", State |-> "CA",
       Industry |-> Finance,
       Initial_Approval |-> 30, Initial_Denial |-> 2,
       Continuing_Approval |-> 10, Continuing_Denial |-> 0],
      [Year |-> 2021, Employer |-> NameBc, City |-> NaN, State |-> "TX",
       Industry |-> Manufacturing,
       Initial_Approval |-> 0, Initial_Denial |-> 0,
       Continuing_Approval |-> 0, Continuing_Denial |-> 0],
      [Year |-> 2021, Employer |-> NameADot, City |-> "LA", State |-> "CA",
       Industry |-> Professional,
       Initial_Approval |-> 4, Initial_Denial |-> 1,
       Continuing_Approval |-> 6, Continuing_Denial |-> 1],
      [Year |-> 2023, Employer |-> NameBc, City |-> "LA", State |-> "TX",
       Industry |-> Retail,
       Initial_Approval |-> 15, Initial_Denial |-> 0,
       Continuing_Approval |-> 0, Continuing_Denial |-> 4] }

\* texts the user may type into "Search Employer Name:"
\* "", "b", "A", ".", "b.", "("
SearchTexts ==
    { <<>>, <<"b">>, <<"A">>, <<".">>, <<"b", ".">>, <<"(">> }

----------------------------------------------------------------------------
(* pandas helpers *)

Range(s) == { s[i] : i \in 1..Len(s) }

\* the elements of S in the order of the sequence order: a sorted axis
SortedAxis(S, order) == SelectSeq(order, LAMBDA x : x \in S)

RECURSIVE SortedYears(_)
\* sorted(...) of a set of years
SortedYears(S) ==
    IF S = {} THEN <<>>
    ELSE LET m == CHOOSE y \in S : \A z \in S : y <= z
         IN <<m>> \o SortedYears(S \ {m})

RECURSIVE SumApprovals(_)
\* ["Total_Approvals"].sum() over the rows of a frame or group
SumApprovals(rows) ==
    IF rows = {} THEN 0
    ELSE LET r == CHOOSE r \in rows : TRUE
         IN r.Total_Approvals + SumApprovals(rows \ {r})

RECURSIVE SumDenials(_)
\* ["Total_Denials"].sum()
SumDenials(rows) ==
    IF rows = {} THEN 0
    ELSE LET r == CHOOSE r \in rows : TRUE
         IN r.Total_Denials + SumDenials(rows \ {r})

\* AddTotals with the continuing counts left out of the totals
AddTotalsInitialOnly(raw, i) ==
    [idx |-> i, Year |-> raw.Year, Employer |-> raw.Employer,
     City |-> raw.City, State |-> raw.State, Industry |-> raw.Industry,
     Initial_Approval |-> raw.Initial_Approval,
     Initial_Denial |-> raw.Initial_Denial,
     Continuing_Approval |-> raw.Continuing_Approval,
     Continuing_Denial |-> raw.Continuing_Denial,
     Total_Approvals |-> raw.Initial_Approval,
     Total_Denials |-> raw.Initial_Denial]

\* lines 47-48: the derived columns of one row
AddTotals(raw, i) ==
    [idx |-> i, Year |-> raw.Year, Employer |-> raw.Employer,
     City |-> raw.City, State |-> raw.State, Industry |-> raw.Industry,
     Initial_Approval |-> raw.Initial_Approval,
     Initial_Denial |-> raw.Initial_Denial,
     Continuing_Approval |-> raw.Continuing_Approval,
     Continuing_Denial |-> raw.Continuing_Denial,
     Total_Approvals |-> raw.Initial_Approval + raw.Continuing_Approval,
     Total_Denials |-> raw.Initial_Denial + raw.Continuing_Denial]

\* lines 31-49: the frame of a parquet file whose rows are file[1..n]
load_data(file) == { AddTotals(file[i], i - 1) : i \in 1..Len(file) }

\* the files the program may be started on
ParquetFiles ==
    UNION { [1..n -> RawRecords] : n \in 1..NumRows }

----------------------------------------------------------------------------
(* calculate_yoy_change, lines 54-57.  The float the division yields is    *)
(* kept as the exact fraction num / den in lowest terms, den > 0.          *)

Abs(x) == IF x < 0 THEN -x ELSE x

RECURSIVE Gcd(_, _)
Gcd(a, b) == IF b = 0 THEN a ELSE Gcd(b, a % b)

\* the fraction n / d, d # 0
Rat(n, d) ==
    LET g == Gcd(Abs(n), Abs(d))
        s == IF d < 0 THEN -1 ELSE 1
    IN [num |-> (s * n) \div g, den |-> (s * d) \div g]

\* the fraction r times the integer k
RatTimes(r, k) == Rat(r.num * k, r.den)

\* calculate_yoy_change without the factor 100
YoyFraction(current_year, previous_year) ==
    IF previous_year = 0
    THEN Rat(0, 1)
    ELSE Rat(current_year - previous_year, previous_year)

calculate_yoy_change(current_year, previous_year) ==
    IF previous_year = 0
    THEN Rat(0, 1)
    ELSE RatTimes(Rat(current_year - previous_year, previous_year), 100)

----------------------------------------------------------------------------
(* Aggregations *)

\* df[df["Year"].isin(selected_years)], line 78
FilterYears(frame, years) == { r \in frame : r.Year \in years }

\* groupby("Year")["Total_Approvals"].sum(), line 85
GroupApprovalsByYear(frame) ==
    [y \in { r.Year : r \in frame } |->
        SumApprovals({ r \in frame : r.Year = y })]

\* groupby("Year")["Total_Denials"].sum(), line 86
GroupDenialsByYear(frame) ==
    [y \in { r.Year : r \in frame } |->
        SumDenials({ r \in frame : r.Year = y })]

\* Series.get(key, 0)
SeriesGet(series, key) ==
    IF key \in DOMAIN series THEN series[key] ELSE 0

\* one pass of the loop body, lines 91-93 and 103-105
YearMetric(series, year) ==
    LET current == SeriesGet(series, year)
        previous == IF (year - 1) \in DOMAIN series
                    THEN SeriesGet(series, year - 1) ELSE 0
    IN [current |-> current, previous |-> previous,
        yoy |-> calculate_yoy_change(current, previous)]

\* the loop over selected_years, lines 90-98 and 102-110
YearMetrics(series, years) == [y \in years |-> YearMetric(series, y)]

\* groupby("Industry")["Total_Approvals"].sum()
GroupApprovalsByIndustry(frame) ==
    [i \in { r.Industry : r \in frame } |->
        SumApprovals({ r \in frame : r.Industry = i })]

\* groupby("Employer Name")["Total_Approvals"].sum()
GroupApprovalsByEmployer(frame) ==
    [e \in { r.Employer : r \in frame } |->
        SumApprovals({ r \in frame : r.Employer = e })]

\* the sequence s without its i-th element
RemoveAt(s, i) == SubSeq(s, 1, i - 1) \o SubSeq(s, i + 1, Len(s))

RECURSIVE NLargest(_, _, _)
\* Series.nlargest(n), keep="first": the keys of the n largest values,
\* largest first, equal values in the order of the index (keys)
NLargest(keys, series, n) ==
    IF n = 0 \/ keys = <<>> THEN <<>>
    ELSE LET i == CHOOSE i \in 1..Len(keys) :
                    /\ \A j \in 1..Len(keys) : series[keys[j]] <= series[keys[i]]
                    /\ \A j \in 1..(i - 1) : series[keys[j]] < series[keys[i]]
         IN <<keys[i]>> \o NLargest(RemoveAt(keys, i), series, n - 1)

\* TopIndustries taking the first n industries of the index, unranked
TopIndustriesHead(frame) ==
    LET series == GroupApprovalsByIndustry(frame)
        keys == SortedAxis(DOMAIN series, IndustryOrder)
    IN SubSeq(keys, 1, IF Len(keys) < TopN THEN Len(keys) ELSE TopN)

\* line 136: the index of the nlargest Series
TopIndustries(frame) ==
    LET series == GroupApprovalsByIndustry(frame)
    IN NLargest(SortedAxis(DOMAIN series, IndustryOrder), series, TopN)

\* WithIndustryCategory dropping the rows outside the top industries
WithIndustryCategoryTopOnly(frame, top) ==
    { [idx |-> r.idx, Year |-> r.Year, Total_Approvals |-> r.Total_Approvals,
       Industry |-> r.Industry, Industry_Category |-> r.Industry]
      : r \in { q \in frame : q.Industry \in Range(top) } }

\* lines 139-142: the copy with the column Industry_Category
WithIndustryCategory(frame, top) ==
    { [idx |-> r.idx, Year |-> r.Year, Total_Approvals |-> r.Total_Approvals,
       Industry |-> r.Industry,
       Industry_Category |->
           IF r.Industry \in Range(top) THEN r.Industry ELSE Others]
      : r \in frame }

\* pivot_table(values="Total_Approvals", index="Year", columns=columns,
\* aggfunc="sum").fillna(0), lines 145-150 and 220-225
pivot_table(frame, columns) ==
    LET years == { r.Year : r \in frame }
        cols == { r[columns] : r \in frame }
    IN [index |-> SortedYears(years),
        columns |-> SortedAxis(cols, IndustryOrder),
        values |-> [cell \in years \X cols |->
            LET group == { r \in frame :
                             r.Year = cell[1] /\ r[columns] = cell[2] }
            IN IF group = {} THEN 0 ELSE SumApprovals(group)]]

\* a frame with no rows and no columns
EmptyPivot == [index |-> <<>>, columns |-> <<>>, values |-> <<>>]

\* the orders sort_values(ascending=False) may give the columns, line 154:
\* largest value of the row first; the default sort is not stable, so
\* columns of equal value come in any order
SortedColumns(pivot, row) ==
    LET n == Len(pivot.columns)
    IN { p \in [1..n -> Range(pivot.columns)] :
           /\ \A i, j \in 1..n : i # j => p[i] # p[j]
           /\ \A i \in 1..(n - 1) :
                 pivot.values[<<row, p[i]>>] >= pivot.values[<<row, p[i + 1]>>] }

\* SupplyChain without the restriction to the target industries
SupplyChainAll(frame) == frame

\* line 205
SupplyChain(frame) == { r \in frame : r.Industry \in Range(target_industries) }

\* TopCompanies without the restriction to the tab's industry
TopCompaniesAllIndustries(frame, industry) ==
    LET series == GroupApprovalsByEmployer(frame)
        top == NLargest(SortedAxis(DOMAIN series, EmployerOrder), series, TopK)
    IN [i \in 1..Len(top) |-> [name |-> top[i], value |-> series[top[i]]]]

\* lines 255-256 for one tab: the nlargest Series as (name, value) pairs
TopCompanies(frame, industry) ==
    LET industry_companies == { r \in frame : r.Industry = industry }
        series == GroupApprovalsByEmployer(industry_companies)
        top == NLargest(SortedAxis(DOMAIN series, EmployerOrder), series, TopK)
    IN [i \in 1..Len(top) |-> [name |-> top[i], value |-> series[top[i]]]]

----------------------------------------------------------------------------
(* The raw-data filters, lines 269-308 *)

\* fillna("").astype(str) of one value
FillNa(v) == IF v = NaN THEN "" ELSE v

\* lines 269-270
NormaliseNulls(frame) ==
    { [r EXCEPT !.State = FillNa(r.State), !.City = FillNa(r.City)]
      : r \in frame }

\* re.IGNORECASE on one character of the alphabet A B a b c . (
Lower(c) == CASE c = "A" -> "a" [] c = "B" -> "b" [] OTHER -> c

\* re.compile(pat) raises: over this alphabet, an unterminated group
RegexError(pat) == \E i \in 1..Len(pat) : pat[i] = "("

\* the compiled pattern matches s at position i: "." matches any character
MatchesAt(pat, s, i) ==
    \A j \in 1..Len(pat) :
        pat[j] = "." \/ Lower(pat[j]) = Lower(s[i + j - 1])

\* str.contains(pat, case=False, na=False) of one name, regex=True (the
\* default): re.search
str_contains(s, pat) ==
    \E i \in 1..(Len(s) - Len(pat) + 1) : MatchesAt(pat, s, i)

\* filterRecords losing the first row of what the state filter keeps
filterRecordsSkipFirst(frame, state, city, industries, search) ==
    LET f0 == IF state # "All"
              THEN { r \in frame : r.State = state } ELSE frame
        f1 == { r \in f0 : \E q \in f0 : q.idx < r.idx }
        f2 == IF city # "All"
              THEN { r \in f1 : r.City = city } ELSE f1
        f3 == IF industries # {}
              THEN { r \in f2 : r.Industry \in industries } ELSE f2
        f4 == IF search # <<>>
              THEN { r \in f3 : str_contains(r.Employer, search) } ELSE f3
    IN f4

\* lines 296-308
filterRecords(frame, state, city, industries, search) ==
    LET f1 == IF state # "All"
              THEN { r \in frame : r.State = state } ELSE frame
        f2 == IF city # "All"
              THEN { r \in f1 : r.City = city } ELSE f1
        f3 == IF industries # {}
              THEN { r \in f2 : r.Industry \in industries } ELSE f2
        f4 == IF search # <<>>
              THEN { r \in f3 : str_contains(r.Employer, search) } ELSE f3
    IN f4

----------------------------------------------------------------------------
(* The script, top to bottom *)

Init ==
    /\ pc = "start"
    /\ \E file \in ParquetFiles : df = load_data(file)
    /\ selected_years = {}
    /\ year_filtered_df = {}
    /\ yearly_approvals = <<>>
    /\ yearly_denials = <<>>
    /\ approvals_metrics = <<>>
    /\ denials_metrics = <<>>
    /\ top_10_industries = <<>>
    /\ industry_yearly = EmptyPivot
    /\ supply_chain_df = {}
    /\ supply_chain_yearly = EmptyPivot
    /\ top_companies = <<>>
    /\ selected_state = "All"
    /\ selected_city = "All"
    /\ selected_industry = {}
    /\ search_company = <<>>
    /\ filtered_df = {}
    /\ yoy_current = 0
    /\ yoy_previous = 0
    /\ yoy_change = Rat(0, 1)

\* lines 74-75: the user's selection among the years of the dataset
Sidebar ==
    /\ pc = "start"
    /\ \E sel \in SUBSET { r.Year : r \in df } : selected_years' = sel
    /\ pc' = "sidebar"
    /\ UNCHANGED <<df, year_filtered_df, yearly_approvals, yearly_denials,
                   approvals_metrics, denials_metrics, top_10_industries,
                   industry_yearly, supply_chain_df, supply_chain_yearly,
                   top_companies, selected_state, selected_city,
                   selected_industry, search_company, filtered_df,
                   yoy_current, yoy_previous, yoy_change>>

\* line 78
YearFilter ==
    /\ pc = "sidebar"
    /\ year_filtered_df' = FilterYears(df, selected_years)
    /\ pc' = "year_filtered"
    /\ UNCHANGED <<df, selected_years, yearly_approvals, yearly_denials,
                   approvals_metrics, denials_metrics, top_10_industries,
                   industry_yearly, supply_chain_df, supply_chain_yearly,
                   top_companies, selected_state, selected_city,
                   selected_industry, search_company, filtered_df,
                   yoy_current, yoy_previous, yoy_change>>

\* lines 85-86
YearlyTotals ==
    /\ pc = "year_filtered"
    /\ yearly_approvals' = GroupApprovalsByYear(year_filtered_df)
    /\ yearly_denials' = GroupDenialsByYear(year_filtered_df)
    /\ pc' = "totals"
    /\ UNCHANGED <<df, selected_years, year_filtered_df,
                   approvals_metrics, denials_metrics, top_10_industries,
                   industry_yearly, supply_chain_df, supply_chain_yearly,
                   top_companies, selected_state, selected_city,
                   selected_industry, search_company, filtered_df,
                   yoy_current, yoy_previous, yoy_change>>

\* KeyMetrics looking the years up in the totals of the whole dataset
KeyMetricsWholeDataset ==
    /\ pc = "totals"
    /\ approvals_metrics' = YearMetrics(GroupApprovalsByYear(df), selected_years)
    /\ denials_metrics' = YearMetrics(GroupDenialsByYear(df), selected_years)
    /\ pc' = "metrics"
    /\ UNCHANGED <<df, selected_years, year_filtered_df, yearly_approvals,
                   yearly_denials, top_10_industries,
                   industry_yearly, supply_chain_df, supply_chain_yearly,
                   top_companies, selected_state, selected_city,
                   selected_industry, search_company, filtered_df,
                   yoy_current, yoy_previous, yoy_change>>

\* lines 88-110
KeyMetrics ==
    /\ pc = "totals"
    /\ approvals_metrics' = YearMetrics(yearly_approvals, selected_years)
    /\ denials_metrics' = YearMetrics(yearly_denials, selected_years)
    /\ pc' = "metrics"
    /\ UNCHANGED <<df, selected_years, year_filtered_df, yearly_approvals,
                   yearly_denials, top_10_industries,
                   industry_yearly, supply_chain_df, supply_chain_yearly,
                   top_companies, selected_state, selected_city,
                   selected_industry, search_company, filtered_df,
                   yoy_current, yoy_previous, yoy_change>>

\* line 136
TopTen ==
    /\ pc = "metrics"
    /\ top_10_industries' = TopIndustries(year_filtered_df)
    /\ pc' = "top10"
    /\ UNCHANGED <<df, selected_years, year_filtered_df, yearly_approvals,
                   yearly_denials, approvals_metrics, denials_metrics,
                   industry_yearly, supply_chain_df, supply_chain_yearly,
                   top_companies, selected_state, selected_city,
                   selected_industry, search_company, filtered_df,
                   yoy_current, yoy_previous, yoy_change>>

\* lines 139-150
IndustryPivot ==
    /\ pc = "top10"
    /\ industry_yearly' =
           pivot_table(WithIndustryCategory(year_filtered_df, top_10_industries),
                       "Industry_Category")
    /\ pc' = "pivot"
    /\ UNCHANGED <<df, selected_years, year_filtered_df, yearly_approvals,
                   yearly_denials, approvals_metrics, denials_metrics,
                   top_10_industries, supply_chain_df, supply_chain_yearly,
                   top_companies, selected_state, selected_city,
                   selected_industry, search_company, filtered_df,
                   yoy_current, yoy_previous, yoy_change>>

\* lines 153-155, the pivot has a first row
SortColumns ==
    /\ pc = "pivot"
    /\ industry_yearly.index # <<>>
    /\ LET first_year == industry_yearly.index[1]
       IN \E sorted_columns \in SortedColumns(industry_yearly, first_year) :
             industry_yearly' =
                 [industry_yearly EXCEPT !.columns = sorted_columns]
    /\ pc' = "sorted"
    /\ UNCHANGED <<df, selected_years, year_filtered_df, yearly_approvals,
                   yearly_denials, approvals_metrics, denials_metrics,
                   top_10_industries, supply_chain_df, supply_chain_yearly,
                   top_companies, selected_state, selected_city,
                   selected_industry, search_company, filtered_df,
                   yoy_current, yoy_previous, yoy_change>>

\* line 153 on a pivot with no rows: industry_yearly.index[0] raises
\* IndexError and the run ends
SortColumnsIndexError ==
    /\ pc = "pivot"
    /\ industry_yearly.index = <<>>
    /\ pc' = "error"
    /\ UNCHANGED <<df, selected_years, year_filtered_df, yearly_approvals,
                   yearly_denials, approvals_metrics, denials_metrics,
                   top_10_industries, industry_yearly, supply_chain_df,
                   supply_chain_yearly, top_companies, selected_state,
                   selected_city, selected_industry, search_company,
                   filtered_df, yoy_current, yoy_previous, yoy_change>>

\* line 205
SupplyChainFilter ==
    /\ pc = "sorted"
    /\ supply_chain_df' = SupplyChain(year_filtered_df)
    /\ pc' = "supply_chain"
    /\ UNCHANGED <<df, selected_years, year_filtered_df, yearly_approvals,
                   yearly_denials, approvals_metrics, denials_metrics,
                   top_10_industries, industry_yearly, supply_chain_yearly,
                   top_companies, selected_state, selected_city,
                   selected_industry, search_company, filtered_df,
                   yoy_current, yoy_previous, yoy_change>>

\* lines 220-225
WatchlistPivot ==
    /\ pc = "supply_chain"
    /\ supply_chain_yearly' = pivot_table(supply_chain_df, "Industry")
    /\ pc' = "watchlist"
    /\ UNCHANGED <<df, selected_years, year_filtered_df, yearly_approvals,
                   yearly_denials, approvals_metrics, denials_metrics,
                   top_10_industries, industry_yearly, supply_chain_df,
                   top_companies, selected_state, selected_city,
                   selected_industry, search_company, filtered_df,
                   yoy_current, yoy_previous, yoy_change>>

\* lines 253-256, every tab
TopCompaniesTabs ==
    /\ pc = "watchlist"
    /\ top_companies' =
           [industry \in Range(target_industries) |->
               TopCompanies(supply_chain_df, industry)]
    /\ pc' = "companies"
    /\ UNCHANGED <<df, selected_years, year_filtered_df, yearly_approvals,
                   yearly_denials, approvals_metrics, denials_metrics,
                   top_10_industries, industry_yearly, supply_chain_df,
                   supply_chain_yearly, selected_state, selected_city,
                   selected_industry, search_company, filtered_df,
                   yoy_current, yoy_previous, yoy_change>>

\* lines 269-270
FillNulls ==
    /\ pc = "companies"
    /\ supply_chain_df' = NormaliseNulls(supply_chain_df)
    /\ pc' = "nulls"
    /\ UNCHANGED <<df, selected_years, year_filtered_df, yearly_approvals,
                   yearly_denials, approvals_metrics, denials_metrics,
                   top_10_industries, industry_yearly, supply_chain_yearly,
                   top_companies, selected_state, selected_city,
                   selected_industry, search_company, filtered_df,
                   yoy_current, yoy_previous, yoy_change>>

\* lines 290-293: what the four widgets may return
Widgets ==
    /\ selected_state' \in {"All"} \cup { r.State : r \in supply_chain_df }
    /\ selected_city' \in {"All"} \cup { r.City : r \in supply_chain_df }
    /\ selected_industry' \in SUBSET { r.Industry : r \in supply_chain_df }
    /\ search_company' \in SearchTexts

\* lines 290-308, the search text compiles
ApplyFilters ==
    /\ pc = "nulls"
    /\ Widgets
    /\ ~RegexError(search_company')
    /\ filtered_df' = filterRecords(supply_chain_df, selected_state',
                                    selected_city', selected_industry',
                                    search_company')
    /\ pc' = "done"
    /\ UNCHANGED <<df, selected_years, year_filtered_df, yearly_approvals,
                   yearly_denials, approvals_metrics, denials_metrics,
                   top_10_industries, industry_yearly, supply_chain_df,
                   supply_chain_yearly, top_companies,
                   yoy_current, yoy_previous, yoy_change>>

\* lines 290-308, the search text is no regular expression: line 308
\* raises re.error after the three filters before it have run
ApplyFiltersRegexError ==
    /\ pc = "nulls"
    /\ Widgets
    /\ RegexError(search_company')
    /\ filtered_df' = filterRecords(supply_chain_df, selected_state',
                                    selected_city', selected_industry', <<>>)
    /\ pc' = "error"
    /\ UNCHANGED <<df, selected_years, year_filtered_df, yearly_approvals,
                   yearly_denials, approvals_metrics, denials_metrics,
                   top_10_industries, industry_yearly, supply_chain_df,
                   supply_chain_yearly, top_companies,
                   yoy_current, yoy_previous, yoy_change>>

Next ==
    \/ Sidebar
    \/ YearFilter
    \/ YearlyTotals
    \/ KeyMetrics
    \/ TopTen
    \/ IndustryPivot
    \/ SortColumns
    \/ SortColumnsIndexError
    \/ SupplyChainFilter
    \/ WatchlistPivot
    \/ TopCompaniesTabs
    \/ FillNulls
    \/ ApplyFilters
    \/ ApplyFiltersRegexError

Spec == Init /\ [][Next]_vars

----------------------------------------------------------------------------
(* A call of calculate_yoy_change on its own *)

InitYoy ==
    /\ pc = "yoy"
    /\ yoy_current \in 0..MaxYoy
    /\ yoy_previous \in 0..MaxYoy
    /\ yoy_change = Rat(0, 1)
    /\ df = {}
    /\ selected_years = {}
    /\ year_filtered_df = {}
    /\ yearly_approvals = <<>>
    /\ yearly_denials = <<>>
    /\ approvals_metrics = <<>>
    /\ denials_metrics = <<>>
    /\ top_10_industries = <<>>
    /\ industry_yearly = EmptyPivot
    /\ supply_chain_df = {}
    /\ supply_chain_yearly = EmptyPivot
    /\ top_companies = <<>>
    /\ selected_state = "All"
    /\ selected_city = "All"
    /\ selected_industry = {}
    /\ search_company = <<>>
    /\ filtered_df = {}

\* lines 54-57
CallYoy ==
    /\ pc = "yoy"
    /\ yoy_change' = calculate_yoy_change(yoy_current, yoy_previous)
    /\ pc' = "yoy_done"
    /\ UNCHANGED <<df, selected_years, year_filtered_df, yearly_approvals,
                   yearly_denials, approvals_metrics, denials_metrics,
                   top_10_industries, industry_yearly, supply_chain_df,
                   supply_chain_yearly, top_companies, selected_state,
                   selected_city, selected_industry, search_company,
                   filtered_df, yoy_current, yoy_previous>>

NextYoy == CallYoy

SpecYoy == InitYoy /\ [][NextYoy]_vars

----------------------------------------------------------------------------
(* Properties.  Their right-hand sides are computed from the source        *)
(* columns of df, not from the derived columns or the model's aggregation  *)
(* operators.                                                              *)

RECURSIVE SumOf(_, _)
\* the sum of column field over rows
SumOf(rows, field) ==
    IF rows = {} THEN 0
    ELSE LET r == CHOOSE r \in rows : TRUE
         IN r[field] + SumOf(rows \ {r}, field)

RECURSIVE SumSeries(_)
\* the sum of the values of a Series
SumSeries(series) ==
    IF DOMAIN series = {} THEN 0
    ELSE LET k == CHOOSE k \in DOMAIN series : TRUE
         IN series[k] + SumSeries([j \in DOMAIN series \ {k} |-> series[j]])

\* TotalApprovals / TotalDenials of a set of records, from the source counts
ApprovalsOf(rows) ==
    SumOf(rows, "Initial_Approval") + SumOf(rows, "Continuing_Approval")
DenialsOf(rows) ==
    SumOf(rows, "Initial_Denial") + SumOf(rows, "Continuing_Denial")

\* the records of df whose Year is in the selection
Selected == { r \in df : r.Year \in selected_years }

Min(a, b) == IF a < b THEN a ELSE b

\* positions of the script right after a result is computed; nothing
\* later in the run assigns these results again
AfterTotals == pc = "totals"
AfterMetrics == pc = "metrics"
\* the pivot as built at line 150 and as reordered at line 155
AfterPivot == pc \in {"pivot", "sorted"}
AfterWatchlist == pc = "watchlist"
AfterCompanies == pc = "companies"

\* C1: the yearly totals conserve the counts: the approvals (denials) of
\* all output years sum to the TotalApprovals (TotalDenials) of exactly the
\* records whose Year is selected, and each output year holds the sum over
\* that year's records only.
C1_YearlyTotalsConserve ==
    AfterTotals =>
        /\ SumSeries(yearly_approvals) = ApprovalsOf(Selected)
        /\ SumSeries(yearly_denials) = DenialsOf(Selected)
        /\ DOMAIN yearly_approvals = { r.Year : r \in Selected }
        /\ DOMAIN yearly_denials = { r.Year : r \in Selected }
        /\ \A y \in DOMAIN yearly_approvals :
              /\ yearly_approvals[y] = ApprovalsOf({ r \in df : r.Year = y })
              /\ yearly_denials[y] = DenialsOf({ r \in df : r.Year = y })

\* an output year with two records, continuing approvals and denials
\* counted, and an unselected year with approvals in the dataset
C1_Witness ==
    /\ pc = "totals"
    /\ DOMAIN yearly_approvals # {}
    /\ \E r1, r2 \in Selected :
          r1.idx # r2.idx /\ r1.Year = r2.Year
          /\ r1.Continuing_Approval > 0 /\ r2.Continuing_Denial > 0
    /\ \E r \in df : r.Year \notin selected_years /\ r.Initial_Approval > 0

\* C2: calculate_yoy_change returns 0 when previous is 0, otherwise the r
\* with r * previous = (current - previous) * 100; yoyChange(100, 0) = 0,
\* yoyChange(150, 100) = 50, yoyChange(50, 100) = -50.
C2_YoyChange ==
    pc = "yoy_done" =>
        /\ yoy_change.den > 0
        /\ yoy_previous = 0 => yoy_change.num = 0
        /\ yoy_previous # 0 =>
              yoy_change.num * yoy_previous
                  = (yoy_current - yoy_previous) * 100 * yoy_change.den
        /\ (yoy_current = 100 /\ yoy_previous = 0) =>
              yoy_change = [num |-> 0, den |-> 1]
        /\ (yoy_current = 150 /\ yoy_previous = 100) =>
              yoy_change = [num |-> 50, den |-> 1]
        /\ (yoy_current = 50 /\ yoy_previous = 100) =>
              yoy_change = [num |-> -50, den |-> 1]

\* the call yoyChange(50, 100) has returned -50
C2_Witness ==
    /\ pc = "yoy_done"
    /\ yoy_current = 50
    /\ yoy_previous = 100
    /\ yoy_change = [num |-> -50, den |-> 1]

\* C3: every year row of the top-industries pivot sums, over the top
\* industry columns and "Others", to the TotalApprovals of all records of
\* that year in the year-filtered set; the rows are the years of that set.
C3_PivotRowSums ==
    AfterPivot =>
        /\ Range(industry_yearly.index) = { r.Year : r \in Selected }
        /\ \A y \in Range(industry_yearly.index) :
              SumSeries([i \in 1..Len(industry_yearly.columns) |->
                  industry_yearly.values[<<y, industry_yearly.columns[i]>>]])
                = ApprovalsOf({ r \in Selected : r.Year = y })

\* a sorted pivot of two rows in which "Others" holds approvals in one row
\* and a top industry has an empty cell
C3_Witness ==
    /\ pc = "sorted"
    /\ Len(industry_yearly.index) = 2
    /\ Others \in Range(industry_yearly.columns)
    /\ \E y \in Range(industry_yearly.index) :
          industry_yearly.values[<<y, Others>>] > 0
    /\ \E y \in Range(industry_yearly.index) :
          \E c \in Range(industry_yearly.columns) \ {Others} :
              /\ industry_yearly.values[<<y, c>>] = 0
              /\ { r \in Selected : r.Year = y /\ r.Industry = c } = {}

\* the industries of the year-filtered records
SelectedIndustries == { r.Industry : r \in Selected }

\* C4: the pivot has at most n + 1 columns: industries among the n largest
\* by total approvals over the filtered records, plus "Others", which is
\* there exactly when a record's industry is outside the top n.
C4_PivotColumns ==
    AfterPivot =>
        LET cols == Range(industry_yearly.columns)
            top == Range(top_10_industries)
        IN /\ Len(industry_yearly.columns) <= TopN + 1
           /\ Cardinality(cols) = Len(industry_yearly.columns)
           /\ cols \ {Others} \subseteq top
           /\ top \subseteq SelectedIndustries
           /\ Cardinality(top) = Min(TopN, Cardinality(SelectedIndustries))
           /\ \A i \in top : \A j \in SelectedIndustries \ top :
                 ApprovalsOf({ r \in Selected : r.Industry = i })
                   >= ApprovalsOf({ r \in Selected : r.Industry = j })
           /\ (Others \in cols) <=>
                 (\E r \in Selected : r.Industry \notin top)

\* a pivot of n + 1 columns, "Others" among them, where the industry left
\* out has approvals
C4_Witness ==
    /\ pc = "sorted"
    /\ Len(industry_yearly.columns) = TopN + 1
    /\ Others \in Range(industry_yearly.columns)
    /\ \E r \in Selected :
          r.Industry \notin Range(top_10_industries) /\ r.Initial_Approval > 0

\* the employers with a record in industry among the watch-list records
EmployersIn(industry) ==
    { r.Employer : r \in { q \in Selected : q.Industry = industry } }

\* TotalApprovals of one employer's records in one industry
EmployerApprovals(industry, name) ==
    ApprovalsOf({ r \in Selected : r.Industry = industry /\ r.Employer = name })

\* C5: every tab's top_companies has at most k entries, each the sum of
\* TotalApprovals of that employer's records in the industry, in
\* non-increasing order, and no employer left out has a larger sum than one
\* included.
C5_TopEmployers ==
    AfterCompanies =>
        \A industry \in Range(target_industries) :
            LET top == top_companies[industry]
                names == { top[i].name : i \in 1..Len(top) }
            IN /\ Len(top) = Min(TopK, Cardinality(EmployersIn(industry)))
               /\ Cardinality(names) = Len(top)
               /\ names \subseteq EmployersIn(industry)
               /\ \A i \in 1..Len(top) :
                     top[i].value = EmployerApprovals(industry, top[i].name)
               /\ \A i \in 1..(Len(top) - 1) : top[i].value >= top[i + 1].value
               /\ \A e \in EmployersIn(industry) \ names :
                     \A i \in 1..Len(top) :
                         EmployerApprovals(industry, e) <= top[i].value

\* a tab of k entries in decreasing order, with an employer left out
C5_Witness ==
    /\ pc = "companies"
    /\ \E industry \in Range(target_industries) :
          /\ Len(top_companies[industry]) = TopK
          /\ Cardinality(EmployersIn(industry)) > TopK
          /\ top_companies[industry][1].value > top_companies[industry][2].value

C7_NoFatalError == pc # "error"

\* C8: the watch-list pivot has a column only for watch-list industries
\* with records, no "Others", and every cell is the sum of TotalApprovals of
\* the filtered records of that year and industry; two records of 2021 in
\* one industry with approvals 10 and 20 give the single cell 30.
C8_WatchlistPivot ==
    AfterWatchlist =>
        LET watch == { r \in Selected : r.Industry \in Range(target_industries) }
            cols == Range(supply_chain_yearly.columns)
            rows == Range(supply_chain_yearly.index)
        IN /\ cols = { r.Industry : r \in watch }
           /\ cols \subseteq Range(target_industries)
           /\ Others \notin cols
           /\ rows = { r.Year : r \in watch }
           /\ DOMAIN supply_chain_yearly.values = rows \X cols
           /\ \A y \in rows : \A c \in cols :
                 supply_chain_yearly.values[<<y, c>>]
                   = ApprovalsOf({ r \in Selected : r.Year = y /\ r.Industry = c })
           /\ (/\ Cardinality(watch) = 2
               /\ \A r \in watch : r.Year = 2021 /\ r.Industry = Professional
               /\ { ApprovalsOf({r}) : r \in watch } = {10, 20})
              => /\ supply_chain_yearly.index = <<2021>>
                 /\ supply_chain_yearly.columns = <<Professional>>
                 /\ supply_chain_yearly.values[<<2021, Professional>>] = 30

\* the scenario: two watch-list records of 2021 with approvals 10 and 20,
\* beside a record of an industry that is not on the watch list
C8_Witness ==
    /\ pc = "watchlist"
    /\ Cardinality(supply_chain_df) = 2
    /\ { r.Total_Approvals : r \in supply_chain_df } = {10, 20}
    /\ \E r \in Selected : r.Industry = Finance /\ r.Total_Approvals > 0
    /\ supply_chain_yearly.values = [cell \in {<<2021, Professional>>} |-> 30]

\* EmployerName contains text, compared without regard to case
ContainsIgnoreCase(name, text) ==
    \E i \in 1..(Len(name) - Len(text) + 1) :
        \A j \in 1..Len(text) : Lower(name[i + j - 1]) = Lower(text[j])

\* C9: the filtered records are exactly the input records that satisfy
\* every active predicate: State, City, Industry membership, and
\* EmployerName containing the search text case-insensitively.
C9_FilterExactSubset ==
    pc = "done" =>
        filtered_df =
            { r \in supply_chain_df :
                /\ selected_state = "All" \/ r.State = selected_state
                /\ selected_city = "All" \/ r.City = selected_city
                /\ selected_industry = {} \/ r.Industry \in selected_industry
                /\ search_company = <<>>
                       \/ ContainsIgnoreCase(r.Employer, search_company) }

\* C10: for every selected year the metric's current value is the yearly
\* total (0 without records), the previous value is the total of year - 1
\* in the year-filtered records (0 when it has none), and the YoY change is
\* 0 whenever year - 1 is unselected or without records.
C10_YearMetrics ==
    AfterMetrics =>
        /\ DOMAIN approvals_metrics = selected_years
        /\ DOMAIN denials_metrics = selected_years
        /\ \A y \in selected_years :
              LET a == approvals_metrics[y]
                  d == denials_metrics[y]
                  prior == { r \in Selected : r.Year = y - 1 }
              IN /\ a.current = ApprovalsOf({ r \in Selected : r.Year = y })
                 /\ d.current = DenialsOf({ r \in Selected : r.Year = y })
                 /\ y \in DOMAIN yearly_approvals =>
                       /\ a.current = yearly_approvals[y]
                       /\ d.current = yearly_denials[y]
                 /\ a.previous = ApprovalsOf(prior)
                 /\ d.previous = DenialsOf(prior)
                 /\ prior # {} =>
                       /\ a.previous = yearly_approvals[y - 1]
                       /\ d.previous = yearly_denials[y - 1]
                 /\ (y - 1 \notin selected_years \/ prior = {}) =>
                       /\ a.previous = 0 /\ a.yoy.num = 0
                       /\ d.previous = 0 /\ d.yoy.num = 0
                 /\ a.previous # 0 =>
                       a.yoy.num * a.previous
                           = (a.current - a.previous) * 100 * a.yoy.den
                 /\ d.previous # 0 =>
                       d.yoy.num * d.previous
                           = (d.current - d.previous) * 100 * d.yoy.den

\* 2022 is selected and 2021 is not, the dataset holds approvals and
\* denials for 2021, and both changes reported for 2022 are 0
C10_Witness ==
    /\ pc = "metrics"
    /\ 2022 \in selected_years
    /\ 2021 \notin selected_years
    /\ \E r \in df : r.Year = 2021 /\ r.Total_Approvals > 0 /\ r.Total_Denials > 0
    /\ approvals_metrics[2022].current > 0
    /\ denials_metrics[2022].current > 0
    /\ approvals_metrics[2022].yoy.num = 0
    /\ denials_metrics[2022].yoy.num = 0

====
